---- MODULE Spec2Model ----
(***************************************************************************)
(* Model of the credential store of larner-dev/auth: CredentialModel of    *)
(* src/models/Credentials.ts, in the two versions the repository holds     *)
(* (src/src/models/Credentials.ts and src/unnamed/part_000).  Definitions  *)
(* that differ between the two versions carry the suffix _p0 for part_000. *)
(*                                                                         *)
(* Strings are sequences of one-character strings, so that splitting,      *)
(* parseInt, base64url and the template literal are computed.  A Date is   *)
(* <<s>>,  null is <<>>.  The table lives in a READ COMMITTED store: a     *)
(* statement issued with a transaction handle is pending until the handle  *)
(* commits, a statement issued without one commits at once.  The           *)
(* validation methods only read the table: the operators named after them  *)
(* give the outcomes of a call whose fetch is answered in the current      *)
(* state, and one call at a time is followed through its awaits (val).     *)
(***************************************************************************)
EXTENDS Integers, Sequences, FiniteSets, TLC

\* ------------------------------------------------------------------ bounds
MaxId == 2
MaxTicks == 1
MaxLength == 1

\* --------------------------------------------------------------- constants
DefaultMaxAgeMinutes == 525600
DefaultLength == 32

Null == <<>>

Users == {"u1", "u2"}
Callers == {"c1", "c2"}
Password == "Password"
ThirdParty == "ThirdParty"
SessionToken == "SessionToken"
PriveledgedToken == "PrivilegedToken"
CredentialType == {Password, ThirdParty, SessionToken, PriveledgedToken}
TokenTypes == {SessionToken, PriveledgedToken}

saltRounds ==
  [t \in CredentialType |->
     CASE t = Password -> 10
       [] t = ThirdParty -> 0
       [] t = SessionToken -> 1
       [] t = PriveledgedToken -> 10]

\* ------------------------------------------------------------ text helpers
Digits == <<"0", "1", "2", "3", "4", "5", "6", "7", "8", "9">>

Base64UrlAlphabet ==
  << "A","B","C","D","E","F","G","H","I","J","K","L","M","N","O","P",
     "Q","R","S","T","U","V","W","X","Y","Z","a","b","c","d","e","f",
     "g","h","i","j","k","l","m","n","o","p","q","r","s","t","u","v",
     "w","x","y","z","0","1","2","3","4","5","6","7","8","9","-","_" >>

B64(n) == Base64UrlAlphabet[n + 1]

\* buff.toString("base64url"): 3 bytes -> 4 characters, no padding.
RECURSIVE Base64Url(_)
Base64Url(bytes) ==
  IF Len(bytes) = 0 THEN <<>>
  ELSE IF Len(bytes) = 1 THEN
    << B64(bytes[1] \div 4), B64((bytes[1] % 4) * 16) >>
  ELSE IF Len(bytes) = 2 THEN
    << B64(bytes[1] \div 4),
       B64((bytes[1] % 4) * 16 + bytes[2] \div 16),
       B64((bytes[2] % 16) * 4) >>
  ELSE
    << B64(bytes[1] \div 4),
       B64((bytes[1] % 4) * 16 + bytes[2] \div 16),
       B64((bytes[2] % 16) * 4 + bytes[3] \div 64),
       B64(bytes[3] % 64) >>
    \o Base64Url(SubSeq(bytes, 4, Len(bytes)))

\* `${n}` of an integer.
RECURSIVE NumberToString(_)
NumberToString(n) ==
  IF n < 0 THEN <<"-">> \o NumberToString(0 - n)
  ELSE IF n < 10 THEN << Digits[n + 1] >>
  ELSE NumberToString(n \div 10) \o << Digits[(n % 10) + 1] >>

\* String.prototype.split(sep) for a one-character separator: one piece more
\* than there are separators, the text between them; pieces may be empty.
Split(s, sep) ==
  LET at == {i \in 1..Len(s) : s[i] = sep}
      n == Cardinality(at)
      pos(k) == IF k = 0 THEN 0
                ELSE IF k = n + 1 THEN Len(s) + 1
                ELSE CHOOSE i \in at : Cardinality({j \in at : j < i}) = k - 1
  IN [k \in 1..(n + 1) |-> SubSeq(s, pos(k - 1) + 1, pos(k) - 1)]

IsDigit(c) == \E d \in 1..10 : Digits[d] = c
DigitValue(c) == (CHOOSE d \in 1..10 : Digits[d] = c) - 1

\* The digits of radix 16, in either case.
HexDigits ==
  << "0", "1", "2", "3", "4", "5", "6", "7", "8", "9",
     "a", "b", "c", "d", "e", "f" >>
HexDigitsUpper ==
  << "0", "1", "2", "3", "4", "5", "6", "7", "8", "9",
     "A", "B", "C", "D", "E", "F" >>
IsHexDigit(c) == \E d \in 1..16 : HexDigits[d] = c \/ HexDigitsUpper[d] = c
HexDigitValue(c) ==
  (CHOOSE d \in 1..16 : HexDigits[d] = c \/ HexDigitsUpper[d] = c) - 1

\* The characters parseInt strips from the front: WhiteSpace (tab, vertical
\* tab, form feed, space, no-break space, U+FEFF and the space separators)
\* and LineTerminator (line feed, carriage return, U+2028, U+2029).  A
\* character that cannot be written in a string here goes by its code point.
WhiteSpace ==
  { "\t", "U+000B", "\f", " ", "U+00A0", "U+FEFF",
    "U+1680", "U+2000", "U+2001", "U+2002", "U+2003", "U+2004", "U+2005",
    "U+2006", "U+2007", "U+2008", "U+2009", "U+200A", "U+202F", "U+205F",
    "U+3000" }
LineTerminator == { "\n", "\r", "U+2028", "U+2029" }
IsWhiteSpace(c) == c \in WhiteSpace \cup LineTerminator

RECURSIVE SkipWhiteSpace(_)
SkipWhiteSpace(s) ==
  IF Len(s) > 0 /\ IsWhiteSpace(s[1]) THEN SkipWhiteSpace(Tail(s)) ELSE s

\* The longest prefix of decimal digits, as a number; cnt counts the digits.
RECURSIVE DigitPrefix(_, _, _)
DigitPrefix(s, val, cnt) ==
  IF Len(s) > 0 /\ IsDigit(s[1])
  THEN DigitPrefix(Tail(s), val * 10 + DigitValue(s[1]), cnt + 1)
  ELSE [val |-> val, cnt |-> cnt]

\* The longest prefix of hexadecimal digits, as a number.
RECURSIVE HexDigitPrefix(_, _, _)
HexDigitPrefix(s, val, cnt) ==
  IF Len(s) > 0 /\ IsHexDigit(s[1])
  THEN HexDigitPrefix(Tail(s), val * 16 + HexDigitValue(s[1]), cnt + 1)
  ELSE [val |-> val, cnt |-> cnt]

\* parseInt(string) without a radix: leading white space is skipped, one
\* sign is read, "0x" or "0X" after it selects radix 16 and is dropped, the
\* longest run of digits of the radix is the value and whatever follows it
\* is ignored; no digit at all gives NaN.
parseInt(s) ==
  LET t == SkipWhiteSpace(s)
      neg == Len(t) > 0 /\ t[1] = "-"
      u == IF Len(t) > 0 /\ t[1] \in {"-", "+"} THEN Tail(t) ELSE t
      hex == Len(u) >= 2 /\ u[1] = "0" /\ u[2] \in {"x", "X"}
      p == IF hex THEN HexDigitPrefix(SubSeq(u, 3, Len(u)), 0, 0)
           ELSE DigitPrefix(u, 0, 0)
  IN IF p.cnt = 0 THEN [nan |-> TRUE, val |-> 0]
     ELSE [nan |-> FALSE, val |-> IF neg THEN 0 - p.val ELSE p.val]

isNaN(n) == n.nan

\* ------------------------------------------------------------------ bcrypt
\* hash(plaintext, rounds) and compare(plaintext, digest) of the hashing
\* library.  A digest is a string "$2b$<cost>$<salt><hash>", the cost
\* written with two digits and kept within 4..31.  hash draws a fresh salt
\* for every call, so it is the set of digests a call can resolve to, one
\* for each salt; here a salt is one character and the part after it stands
\* for the one-way image of the key under that salt, so that a digest is a
\* string like the plaintext but never equal to it.  The key is the first 72
\* bytes of the plaintext (the strings here have one byte to a character).
\* compare reads cost and salt from the digest: it is true exactly for the
\* plaintexts that begin with the same 72 bytes as the one the digest was
\* made from.
BcryptPrefix == << "$", "2", "b", "$" >>
BcryptMaxBytes == 72
Rounds(rounds) == IF rounds < 4 THEN 4 ELSE IF rounds > 31 THEN 31 ELSE rounds
TwoDigits(n) == << Digits[(n \div 10) + 1], Digits[(n % 10) + 1] >>
BcryptKey(plain) ==
  IF Len(plain) > BcryptMaxBytes THEN SubSeq(plain, 1, BcryptMaxBytes)
  ELSE plain
Salts == {"s", "t"}
Digest(plain, rounds, salt) ==
  BcryptPrefix \o TwoDigits(Rounds(rounds)) \o << "$", salt >>
    \o BcryptKey(plain)
hash(plain, rounds) == {Digest(plain, rounds, salt) : salt \in Salts}
compare(plain, digest) ==
  /\ Len(digest) = 8 + Len(BcryptKey(plain))
  /\ SubSeq(digest, 1, 4) = BcryptPrefix
  /\ IsDigit(digest[5]) /\ IsDigit(digest[6]) /\ digest[7] = "$"
  /\ digest[8] \in Salts
  /\ SubSeq(digest, 9, Len(digest)) = BcryptKey(plain)

\* ------------------------------------------------------------ JS arguments
\* An optional argument: not supplied, null, or a number.
Undefined == [t |-> "undefined", n |-> 0]
JsNull == [t |-> "null", n |-> 0]
Num(n) == [t |-> "number", n |-> n]
Truthy(v) == v.t = "number" /\ v.n # 0

\* Times are in seconds (the code's are in ms; a year of ms does not fit a
\* 32-bit integer): one minute, maxAgeMinutes * 60 * 1000 ms.
Minute == 60
Passwords == { <<"p", "1">>, <<"p", "2">> }
\* expiresAt of setPassword: left out, or the Date one minute after the start.
ExpiresAtInputs == { Null, << Minute >> }

\* ------------------------------------------------------------------- state
VARIABLES
  credentials,  \* the committed rows of table "credentials"
  nextId,       \* the serial of column id
  now,          \* Date.now(), in seconds
  pc,           \* where each caller's setPassword and its transaction stand
  arg,          \* each caller's setPassword: data.userId as read for the
                \* delete, and the password and the record to insert once
                \* the call has read them
  txDeleted,    \* ids each open transaction has deleted and not yet committed
  before,       \* the Password rows of arg.userId when the call began
  overlapped,   \* whether the call ran while another caller's was in flight
  serial,       \* no call so far overlapped, failed or was rolled back
  issued,       \* what generateAndSaveToken has returned
  version,      \* the version of Credentials.ts deployed: "ts" or "p0"
  lastSet,      \* per user, the password of the latest setPassword insert
  undone,       \* some setPassword call so far failed or was rolled back
  gen,          \* each minter's generateToken / generateAndSaveToken call
  val           \* the validation call in progress

vars == << credentials, nextId, now, pc, arg, txDeleted, before, overlapped,
           serial, issued, version, lastSet, undone, gen, val >>

InFlight == {"hardDelete", "hash", "save", "returned", "failed"}
Finished == {"idle", "committed", "rolledBack"}

\* What a setPassword call holds of its data: userId is data.userId as read
\* for the delete; password is data.password once hash was called with it;
\* user_id, secret, created_at and expires_at are those of the record handed
\* to save (user_id is data.userId as read again for the record, secret is
\* what hash resolved to).
Args(userId) ==
  [userId |-> userId, password |-> Null, user_id |-> Null, secret |-> Null,
   created_at |-> Null, expires_at |-> Null]
NoArg == Args("u1")

\* The calls of generateToken and generateAndSaveToken that are in progress
\* side by side, one to a minter.
Minters == {"m1", "m2"}

\* A minter's call, before any was made.  pc is where the call stands; save
\* says whether generateAndSaveToken made it; at is what Date.now() gave and
\* expires_at the value computed from it.
NoGen ==
  [pc |-> "idle", save |-> FALSE, userId |-> "u1", type |-> SessionToken,
   given |-> Undefined, maxAgeMinutes |-> Undefined, length |-> 0,
   token |-> Null, secret |-> Null, at |-> 0, expires_at |-> Null]

\* The validation call in progress, before any was made.  pc is where the
\* call stands ("fetch": waiting for the row, "compare": waiting for
\* compare, "settled": returned or thrown); data is what it was called with;
\* out is, while compare is pending, the row fetched and what compare will
\* give for it, and once the call is settled how it ended.
NoVal == [pc |-> "idle", method |-> "none", data |-> Null, out |-> Null]

Versions == {"ts", "p0"}

\* The process is running.  The callback of randomBytes throws outside every
\* promise when it is handed an error (buff is undefined): the exception is
\* uncaught, node ends the process, and no call of it takes another step.
\* What the store does with the transactions the process left open is not
\* followed.
Running == \A m \in Minters : gen[m].pc # "uncaught"

Init ==
  /\ credentials = {}
  /\ nextId = 1
  /\ now = 0
  /\ pc = [c \in Callers |-> "idle"]
  /\ arg = [c \in Callers |-> NoArg]
  /\ txDeleted = [c \in Callers |-> {}]
  /\ before = [c \in Callers |-> {}]
  /\ overlapped = [c \in Callers |-> FALSE]
  /\ serial = TRUE
  /\ issued = {}
  /\ version \in Versions
  /\ lastSet = [u \in Users |-> Null]
  /\ undone = FALSE
  /\ gen = [m \in Minters |-> NoGen]
  /\ val = NoVal

\* ------------------------------------------------------------------- store
\* The rows a statement sees: the committed rows, less those the statement's
\* own transaction has deleted.  tx is a caller, or Null for no transaction.
Visible(tx) ==
  IF tx = Null THEN credentials
  ELSE {r \in credentials : r.id \notin txDeleted[tx[1]]}

\* Rows another open transaction has deleted: a delete of one of them waits
\* for that transaction to end.
LockedByOther(c) ==
  UNION {txDeleted[d] : d \in Callers \ {c}}

PasswordRows(userId) ==
  {r \in credentials : r.user_id = userId /\ r.type = Password}

\* A delete that only marks rows (a soft delete) and removes none.
hardDelete_soft(c, userId, type) == txDeleted[c]

\* A delete by user_id alone, whatever the type.
hardDelete_anyType(c, userId, type) ==
  txDeleted[c] \cup {r.id : r \in {v \in Visible(<<c>>) : v.user_id = userId}}

\* Model.hardDelete({user_id, type}, opts): the ids the transaction of
\* caller c has deleted after the statement.
hardDelete(c, userId, type) ==
  txDeleted[c] \cup
    {r.id : r \in {v \in Visible(<<c>>) : v.user_id = userId /\ v.type = type}}

\* Model.save / Model.saveAndFetch: the row the insert creates.  The id is
\* the next of the serial; created_at is the one in the record, or the time
\* of the insert when the record has none (Null).
NewRow(userId, type, secret, expiresAt, createdAt) ==
  [id |-> nextId,
   created_at |-> IF createdAt = Null THEN now ELSE createdAt[1],
   user_id |-> userId, type |-> type,
   secret |-> secret, expires_at |-> expiresAt]

\* Model.fetch(where, opts): one of the matching rows, or null.  rows is the
\* set of matching rows; the result is <<row>> or Null.
fetch(rows) ==
  IF rows = {} THEN {Null} ELSE {<<r>> : r \in rows}

\* -------------------------------------------------------------- setPassword
\* The caller opens a transaction and calls setPassword(data, opts): the
\* delete is issued.  password and expiresAt of data are drawn where the
\* code reads them.
setPassword_call(c, userId) ==
  /\ Running
  /\ pc[c] \in Finished
  /\ pc' = [pc EXCEPT ![c] = "hardDelete"]
  /\ arg' = [arg EXCEPT ![c] = Args(userId)]
  /\ before' = [before EXCEPT ![c] = PasswordRows(userId)]
  /\ LET busy == {d \in Callers \ {c} : pc[d] \in InFlight}
     IN /\ overlapped' = [d \in Callers |->
             IF d = c THEN busy # {}
             ELSE IF d \in busy THEN TRUE ELSE overlapped[d]]
        /\ serial' = (serial /\ busy = {})
  /\ UNCHANGED << credentials, nextId, now, txDeleted, issued, version,
                  lastSet, undone, gen, val >>

\* await this.hardDelete({user_id, type: Password}, opts) is done; the call
\* goes on to hash(data.password, saltRounds[Password]) and waits for it.
setPassword_hardDelete(c, password) ==
  /\ Running
  /\ pc[c] = "hardDelete"
  /\ \A r \in PasswordRows(arg[c].userId) : r.id \notin LockedByOther(c)
  /\ txDeleted' = [txDeleted EXCEPT ![c] = hardDelete(c, arg[c].userId, Password)]
  /\ pc' = [pc EXCEPT ![c] = "hash"]
  /\ arg' = [arg EXCEPT ![c].password = password]
  /\ UNCHANGED << credentials, nextId, now, before, overlapped, serial,
                  issued, version,
                  lastSet, undone, gen, val >>

\* The delete, hash, or the insert rejects, and setPassword with it: when
\* the delete rejects nothing was deleted, hash is never called and no row
\* is inserted; when hash or the insert rejects the delete has been done.
setPassword_throw(c) ==
  /\ Running
  /\ pc[c] \in {"hardDelete", "hash", "save"}
  /\ pc' = [pc EXCEPT ![c] = "failed"]
  /\ serial' = FALSE
  /\ undone' = TRUE
  /\ UNCHANGED << credentials, nextId, now, arg, txDeleted, before, overlapped,
                  issued, version, lastSet, gen, val >>

\* const secret = await hash(...) is done, with the salt hash drew; the call
\* builds the record
\* {created_at: new Date(), user_id: data.userId, secret, type, expires_at:
\* data.expiresAt || null}, hands it to this.save and waits for the insert.
\* data.userId is read here a second time: userId is what it holds now, the
\* same as at the delete unless the caller changed it in between.
setPassword_hash(c, userId, expiresAt, salt) ==
  /\ Running
  /\ pc[c] = "hash"
  /\ pc' = [pc EXCEPT ![c] = "save"]
  /\ arg' = [arg EXCEPT ![c].user_id = << userId >>,
                        ![c].secret =
                          Digest(arg[c].password, saltRounds[Password], salt),
                        ![c].created_at = << now >>,
                        ![c].expires_at = expiresAt]
  /\ UNCHANGED << credentials, nextId, now, txDeleted, before, overlapped,
                  serial, issued, version, lastSet, undone, gen, val >>

\* await this.save(record) is done.  save was called without opts, so the
\* insert is committed at once, outside the transaction.
setPassword_save(c) ==
  /\ Running
  /\ pc[c] = "save"
  /\ nextId <= MaxId
  /\ credentials' = credentials \cup
       { NewRow(arg[c].user_id[1], Password, arg[c].secret,
                arg[c].expires_at, arg[c].created_at) }
  /\ nextId' = nextId + 1
  /\ pc' = [pc EXCEPT ![c] = "returned"]
  /\ lastSet' = [lastSet EXCEPT ![arg[c].user_id[1]] = arg[c].password]
  /\ arg' = [arg EXCEPT ![c] = Args(arg[c].userId)]
  /\ UNCHANGED << now, txDeleted, before, overlapped, serial, issued,
                  version, undone, gen, val >>

\* The caller commits its transaction: the deletes take effect.
Commit(c) ==
  /\ Running
  /\ pc[c] = "returned"
  /\ credentials' = {r \in credentials : r.id \notin txDeleted[c]}
  /\ txDeleted' = [txDeleted EXCEPT ![c] = {}]
  /\ pc' = [pc EXCEPT ![c] = "committed"]
  /\ before' = [before EXCEPT ![c] = {}]
  /\ UNCHANGED << nextId, now, arg, overlapped, serial, issued, version,
                  lastSet, undone, gen, val >>

\* The caller rolls its transaction back (always, after a failed call): the
\* deletes are undone.
Rollback(c) ==
  /\ Running
  /\ pc[c] \in {"returned", "failed"}
  /\ txDeleted' = [txDeleted EXCEPT ![c] = {}]
  /\ pc' = [pc EXCEPT ![c] = "rolledBack"]
  /\ before' = [before EXCEPT ![c] = {}]
  /\ serial' = FALSE
  /\ undone' = TRUE
  /\ UNCHANGED << credentials, nextId, now, arg, overlapped, issued, version,
                  lastSet, gen, val >>

\* ------------------------------------------------------------------- clock
Tick ==
  /\ now < MaxTicks * Minute
  /\ now' = now + Minute
  /\ UNCHANGED << credentials, nextId, pc, arg, txDeleted, before, overlapped,
                  serial, issued, version, lastSet, undone, gen, val >>

\* --------------------------------------------------------------- minting
ByteChoices == {0, 255}

\* The sizes crypto.randomBytes takes; it throws at once for any other.
MaxSize == 2147483647
ValidSize(n) == n >= 0 /\ n <= MaxSize

\* crypto.randomBytes(n): the draws considered are n times the same byte.
\* For a size it does not take there is no draw: the call throws.
RandomBytes(n) ==
  IF ValidSize(n) THEN {[i \in 1..n |-> b] : b \in ByteChoices} ELSE {}

\* The default of a parameter written `p = d`: d when p is not supplied.
DefaultParam(v, d) == IF v.t = "undefined" THEN Num(d) ELSE v
\* `v || d`: d when v is falsy.
OrDefault(v, d) == IF Truthy(v) THEN v ELSE Num(d)

\* let expiresAt = null; if (maxAgeMinutes) expiresAt = new Date(Date.now()
\* + maxAgeMinutes * 60 * 1000), where Date.now() gave at.
ExpiresAt(at, maxAgeMinutes) ==
  IF Truthy(maxAgeMinutes)
  THEN << at + maxAgeMinutes.n * Minute >>
  ELSE Null

\* maxAgeMinutes and length as generateAndSaveToken uses them.
MaxAgeMinutes(maxAgeMinutes) == DefaultParam(maxAgeMinutes, DefaultMaxAgeMinutes)
TokenLength(length) == DefaultParam(length, DefaultLength)
MaxAgeMinutes_p0(maxAgeMinutes) == OrDefault(maxAgeMinutes, DefaultMaxAgeMinutes)
TokenLength_p0(length) == OrDefault(length, DefaultLength)

\* The two parts in the other order: `${cred.id}.${token}`.
Bearer_idFirst(token, id) == NumberToString(id) \o <<".">> \o token

\* `${token}.${cred.id}`
Bearer(token, id) == token \o <<".">> \o NumberToString(id)

MaxAgeInputs == {Undefined, JsNull, Num(0), Num(1)}
ShortLengths == {Num(n) : n \in 1..MaxLength}
LengthInputs == {Undefined} \cup ShortLengths
\* A length whose token (74 characters) is longer than the key of bcrypt.
LongLength == 55
MaxAgeInputs_p0 == {Undefined, Num(0), Num(1)}
LengthInputs_p0 == {Undefined, Num(DefaultLength)}
\* The lengths asked for where failures are followed: a negative one, zero
\* (part_000 takes it for none and mints with the default), and a short one.
MintLengths == {Num(-1), Num(0), Num(MaxLength)}

\* A call is followed from await to await: the promise around randomBytes,
\* the hash, the insert.  Between two of its steps the clock and every other
\* call may move.  The calls are made without opts, so the insert is
\* committed at once.
GenSettled == {"idle", "resolved", "rejected"}
GenPending == {"randomBytes", "callback", "hash", "saveAndFetch", "uncaught"}

Begin(m, save, userId, type, given, maxAgeMinutes, length) ==
  /\ Running
  /\ gen[m].pc \in GenSettled
  /\ gen' = [gen EXCEPT ![m] =
       [pc |-> "randomBytes", save |-> save, userId |-> userId,
        type |-> type, given |-> given, maxAgeMinutes |-> maxAgeMinutes,
        length |-> length.n, token |-> Null, secret |-> Null,
        at |-> 0, expires_at |-> Null]]
  /\ UNCHANGED << credentials, nextId, now, pc, arg, txDeleted, before,
                  overlapped, serial, issued, version, lastSet, undone, val >>

\* generateToken(type, length = 32), called on its own.
generateToken_call(m, type, length) ==
  Begin(m, FALSE, "u1", type, Undefined, Undefined, TokenLength(length))

\* generateAndSaveToken(userId, type, maxAgeMinutes = 525600, length = 32)
\* up to its first await.
generateAndSaveToken_call(m, userId, type, maxAgeMinutes, length) ==
  /\ version = "ts"
  /\ nextId <= MaxId
  /\ Begin(m, TRUE, userId, type, maxAgeMinutes,
           MaxAgeMinutes(maxAgeMinutes), TokenLength(length))

\* generateAndSaveToken({userId, type, maxAgeMinutes?, length?}) up to its
\* first await.
generateAndSaveToken_p0_call(m, userId, type, maxAgeMinutes, length) ==
  /\ version = "p0"
  /\ nextId <= MaxId
  /\ Begin(m, TRUE, userId, type, maxAgeMinutes,
           MaxAgeMinutes_p0(maxAgeMinutes), TokenLength_p0(length))

\* new Promise((resolve) => randomBytes(length, callback)): for a size it
\* does not take randomBytes throws in the executor and the promise, and with
\* it the call, is rejected; otherwise the callback is pending.
generateToken_randomBytes(m) ==
  /\ Running
  /\ gen[m].pc = "randomBytes"
  /\ gen' = [gen EXCEPT ![m].pc = IF ValidSize(gen[m].length) THEN "callback"
                                   ELSE "rejected"]
  /\ UNCHANGED << credentials, nextId, now, pc, arg, txDeleted, before,
                  overlapped, serial, issued, version, lastSet, undone, val >>

\* (err, buff) => resolve(buff.toString("base64url")): with the bytes the
\* promise resolves to the token and hash is called; with an error buff is
\* undefined, the callback throws outside the promise, resolve is never
\* called, the promise stays pending and the process ends.
generateToken_callback(m, err) ==
  /\ Running
  /\ gen[m].pc = "callback"
  /\ IF err
     THEN gen' = [gen EXCEPT ![m].pc = "uncaught"]
     ELSE \E b \in RandomBytes(gen[m].length) :
            gen' = [gen EXCEPT ![m].pc = "hash", ![m].token = Base64Url(b)]
  /\ UNCHANGED << credentials, nextId, now, pc, arg, txDeleted, before,
                  overlapped, serial, issued, version, lastSet, undone, val >>

\* generateAndSaveToken after generateToken has resolved: expiresAt is
\* computed from Date.now() and the insert is issued.
Resolved(g) ==
  IF g.save
  THEN [g EXCEPT !.pc = "saveAndFetch", !.at = now,
                 !.expires_at = ExpiresAt(now, g.maxAgeMinutes)]
  ELSE [g EXCEPT !.pc = "resolved"]

\* A generateToken that hands the raw token back as the value to store.
AfterHash_plain(g, ok, salt) ==
  IF ok
  THEN Resolved([g EXCEPT !.secret = g.token])
  ELSE [g EXCEPT !.pc = "rejected"]

\* const secret = await hash(token, this.saltRounds[type]); return {token,
\* hash: secret}, with the salt hash drew.  When hash rejects, generateToken
\* and its caller reject.
AfterHash(g, ok, salt) ==
  IF ok
  THEN Resolved([g EXCEPT !.secret =
                   Digest(g.token, saltRounds[g.type], salt)])
  ELSE [g EXCEPT !.pc = "rejected"]

generateToken_hash(m, ok, salt) ==
  /\ Running
  /\ gen[m].pc = "hash"
  /\ gen' = [gen EXCEPT ![m] = AfterHash(gen[m], ok, salt)]
  /\ UNCHANGED << credentials, nextId, now, pc, arg, txDeleted, before,
                  overlapped, serial, issued, version, lastSet, undone, val >>

\* await this.saveAndFetch({user_id, type, secret, expires_at}, opts) is
\* done: the row is there and the call returns `${token}.${cred.id}`; or the
\* insert failed, nothing was written and the call rejects.
generateAndSaveToken_saveAndFetch(m, ok) ==
  /\ Running
  /\ gen[m].pc = "saveAndFetch"
  /\ IF ok
     THEN /\ nextId <= MaxId
          /\ LET cred == NewRow(gen[m].userId, gen[m].type, gen[m].secret,
                                gen[m].expires_at, Null)
             IN /\ credentials' = credentials \cup {cred}
                /\ issued' = issued \cup
                     { [bearer |-> Bearer(gen[m].token, cred.id),
                        token |-> gen[m].token,
                        id |-> cred.id, userId |-> gen[m].userId,
                        type |-> gen[m].type,
                        given |-> gen[m].given, at |-> gen[m].at] }
          /\ nextId' = nextId + 1
          /\ gen' = [gen EXCEPT ![m].pc = "resolved"]
     ELSE /\ gen' = [gen EXCEPT ![m].pc = "rejected"]
          /\ UNCHANGED << credentials, issued, nextId >>
  /\ UNCHANGED << now, pc, arg, txDeleted, before, overlapped, serial,
                  version, lastSet, undone, val >>

\* -------------------------------------------------------------- validation
\* What a call does: how it ends (kind "return" or "throw"), the value it
\* returns or throws, how many storage reads it made, and the row its fetch
\* gave (Null when it made none or found none).
Outcome(kind, value, reads, cred) ==
  [kind |-> kind, value |-> value, reads |-> reads, cred |-> cred]

Unauthorized == "UNAUTHORIZED"

PublicCredential(cred) ==
  [id |-> cred.id, created_at |-> cred.created_at, user_id |-> cred.user_id,
   type |-> cred.type, expires_at |-> cred.expires_at]

\* validatePassword({userId, password}, opts)
validatePassword(data) ==
  { IF cred = Null
    THEN Outcome("return", FALSE, 1, Null)
    ELSE Outcome("return", compare(data.password, cred[1].secret), 1, cred)
    : cred \in fetch({r \in Visible(Null) :
                        r.user_id = data.userId /\ r.type = Password}) }

\* validatePasswordOrThrow({userId, password}, opts)
validatePasswordOrThrow(data) ==
  { IF cred = Null
    THEN Outcome("return", FALSE, 1, Null)
    ELSE Outcome("return", compare(data.password, cred[1].secret), 1, cred)
    : cred \in fetch({r \in Visible(Null) :
                        r.user_id = data.userId /\ r.type = Password}) }

\* A fetch that leaves the type out of its where clause.
TokenWhere_anyType(credId, data) ==
  {r \in Visible(Null) : r.id = credId /\ r.user_id = data.userId}

\* The rows validateToken's fetch matches: {id, user_id, type}.
TokenWhere(credId, data) ==
  {r \in Visible(Null) :
     r.id = credId /\ r.user_id = data.userId /\ r.type = data.type}

\* The rows validateToken's fetch matches in part_000: {id, type}.
TokenWhere_p0(credId, data) ==
  {r \in Visible(Null) : r.id = credId /\ r.type = data.type}

\* validateToken({userId, type, token}, opts): boolean
validateToken(data) ==
  LET pieces == Split(data.token, ".")
  IN IF Len(pieces) # 2 THEN { Outcome("return", FALSE, 0, Null) }
     ELSE LET credId == parseInt(pieces[2])
          IN IF isNaN(credId) THEN { Outcome("return", FALSE, 0, Null) }
             ELSE { IF cred = Null
                    THEN Outcome("return", FALSE, 1, Null)
                    ELSE Outcome("return", compare(pieces[1], cred[1].secret),
                                 1, cred)
                    : cred \in fetch(TokenWhere(credId.val, data)) }

\* validateToken({type, token}, opts): PublicCredential | null
validateToken_p0(data) ==
  LET pieces == Split(data.token, ".")
  IN IF Len(pieces) # 2 THEN { Outcome("return", Null, 0, Null) }
     ELSE LET credId == parseInt(pieces[2])
          IN IF isNaN(credId) THEN { Outcome("return", Null, 0, Null) }
             ELSE { IF cred = Null
                    THEN Outcome("return", Null, 1, Null)
                    ELSE IF compare(pieces[1], cred[1].secret)
                    THEN Outcome("return", << PublicCredential(cred[1]) >>, 1, cred)
                    ELSE Outcome("return", Null, 1, cred)
                    : cred \in fetch(TokenWhere_p0(credId.val, data)) }

\* A throwing variant whose error names the cause of the rejection.
validateTokenOrThrow_byCause(data) ==
  { IF ~ o.value
    THEN Outcome("throw",
                 IF o.reads = 0 THEN "BAD_REQUEST"
                 ELSE IF o.cred = Null THEN "NOT_FOUND" ELSE Unauthorized,
                 o.reads, o.cred)
    ELSE Outcome("return", "void", o.reads, o.cred)
    : o \in validateToken(data) }

\* validateTokenOrThrow(data, opts): void
validateTokenOrThrow(data) ==
  { IF ~ o.value
    THEN Outcome("throw", Unauthorized, o.reads, o.cred)
    ELSE Outcome("return", "void", o.reads, o.cred)
    : o \in validateToken(data) }

\* validateTokenOrThrow(data, opts): PublicCredential
validateTokenOrThrow_p0(data) ==
  { IF o.value = Null
    THEN Outcome("throw", Unauthorized, o.reads, o.cred)
    ELSE Outcome("return", o.value, o.reads, o.cred)
    : o \in validateToken_p0(data) }

\* A string with its last character replaced by another.
AlterLast(s) ==
  IF Len(s) = 0 THEN s
  ELSE [s EXCEPT ![Len(s)] = IF s[Len(s)] = "A" THEN "B" ELSE "A"]

\* The bearer strings presented: each issued raw token with each id (the
\* issued strings among them), and others made from an issued string: text
\* after the id, a third part, no delimiter, an id that is no number, the id
\* in hexadecimal after a line feed, and the raw token with its last
\* character changed.
Ids == 1..MaxId
FirstIssued == {i \in issued : \A j \in issued : i.id <= j.id}
TokenInputs ==
  {Bearer(i.token, id) : i \in issued, id \in Ids}
    \cup {i.bearer \o <<"x">> : i \in FirstIssued}
    \cup {i.bearer \o <<".", "1">> : i \in FirstIssued}
    \cup {i.token : i \in FirstIssued}
    \cup {i.token \o <<".", "x">> : i \in FirstIssued}
    \cup {i.token \o <<".", "\n", "0", "x">> \o NumberToString(i.id)
            : i \in FirstIssued}
    \cup {Bearer(AlterLast(i.token), i.id) : i \in FirstIssued}

\* The call that validates bearer string b as issue i was minted.
AsIssued(i, b) == [userId |-> i.userId, type |-> i.type, token |-> b]

PasswordData == [userId : Users, password : Passwords]
TokenData == [userId : Users, type : TokenTypes, token : TokenInputs]
TokenData_p0 == [type : TokenTypes, token : TokenInputs]

\* The bearer strings presented where the calls are followed step by step:
\* the string of the first issue, under its own type and user and under the
\* other type, and its raw token alone.
TokenCalls ==
  {d \in TokenData :
     \E i \in FirstIssued :
       d.userId = i.userId /\ d.token \in {i.bearer, i.token}}
TokenCalls_p0 ==
  {d \in TokenData_p0 : \E i \in FirstIssued : d.token \in {i.bearer, i.token}}

\* The errors a call rejects with when its fetch or its compare rejects: the
\* collaborator's error, as it is.
StorageFailure == "E_fetch"
CompareFailure == "E_compare"

\* The outcomes of a validation method of the deployed version: what a call
\* whose fetch is answered in the current state can end in.  They are fixed
\* by the row the fetch gives: compare is a function of the string presented
\* and that row's secret.
Outcomes(method, data) ==
  CASE method = "validatePassword" -> validatePassword(data)
    [] method = "validatePasswordOrThrow" -> validatePasswordOrThrow(data)
    [] method = "validateToken" ->
         IF version = "ts" THEN validateToken(data) ELSE validateToken_p0(data)
    [] method = "validateTokenOrThrow" ->
         IF version = "ts" THEN validateTokenOrThrow(data)
         ELSE validateTokenOrThrow_p0(data)

\* A call has ended: what was asked, and how it ended.
Settled(method, data, kind, value) ==
  [pc |-> "settled", method |-> method, data |-> << data >>,
   out |-> << [kind |-> kind, value |-> value] >>]

\* A validation method is called.  The token methods split the string and
\* parse the id before their first await: a string they reject there settles
\* the call at once, with no read.  Every other call issues its fetch and
\* waits.  A call begins when the one before it has ended.
Validate(v, method, data) ==
  /\ Running
  /\ version = v
  /\ val.pc \in {"idle", "settled"}
  /\ LET outs == Outcomes(method, data)
     IN IF \A o \in outs : o.reads = 0
        THEN \E o \in outs : val' = Settled(method, data, o.kind, o.value)
        ELSE val' = [pc |-> "fetch", method |-> method, data |-> << data >>,
                     out |-> Null]
  /\ UNCHANGED << credentials, nextId, now, pc, arg, txDeleted, before,
                  overlapped, serial, issued, version, lastSet, undone, gen >>

Call_validatePassword(data) == Validate(version, "validatePassword", data)
Call_validatePasswordOrThrow(data) ==
  Validate(version, "validatePasswordOrThrow", data)
Call_validateToken(data) == Validate("ts", "validateToken", data)
Call_validateTokenOrThrow(data) == Validate("ts", "validateTokenOrThrow", data)
Call_validateToken_p0(data) == Validate("p0", "validateToken", data)
Call_validateTokenOrThrow_p0(data) ==
  Validate("p0", "validateTokenOrThrow", data)

\* const cred = await this.fetch(where, opts) is done: it gave one of the
\* rows that match now, or none.  With no row the call ends (false, null, or
\* the Unauthorized throw); with a row compare is called and the call waits
\* for it.  When fetch rejects the call rejects with that error.
Validation_fetch(ok) ==
  /\ Running
  /\ val.pc = "fetch"
  /\ IF ok
     THEN \E o \in Outcomes(val.method, val.data[1]) :
            val' = IF o.cred = Null THEN Settled(val.method, val.data[1], o.kind,
                                                    o.value)
                   ELSE [val EXCEPT !.pc = "compare", !.out = << o >>]
     ELSE val' = Settled(val.method, val.data[1], "throw", StorageFailure)
  /\ UNCHANGED << credentials, nextId, now, pc, arg, txDeleted, before,
                  overlapped, serial, issued, version, lastSet, undone, gen >>

\* await compare(string, cred.secret) is done: the call ends with what
\* compare gave for the row fetched, whatever the table holds by now.  When
\* compare rejects the call rejects with that error.
Validation_compare(ok) ==
  /\ Running
  /\ val.pc = "compare"
  /\ val' = IF ok THEN Settled(val.method, val.data[1], val.out[1].kind,
                                 val.out[1].value)
            ELSE Settled(val.method, val.data[1], "throw", CompareFailure)
  /\ UNCHANGED << credentials, nextId, now, pc, arg, txDeleted, before,
                  overlapped, serial, issued, version, lastSet, undone, gen >>

\* ----------------------------------------------------------- specification
Next ==
  \/ \E c \in Callers, u \in Users : setPassword_call(c, u)
  \/ \E c \in Callers, p \in Passwords : setPassword_hardDelete(c, p)
  \/ \E c \in Callers : setPassword_throw(c)
  \/ \E c \in Callers, u \in Users, e \in ExpiresAtInputs, salt \in Salts :
       setPassword_hash(c, u, e, salt)
  \/ \E c \in Callers : setPassword_save(c)
  \/ \E c \in Callers : Commit(c)
  \/ \E c \in Callers : Rollback(c)
  \/ \E d \in PasswordData : Call_validatePassword(d)
  \/ \E d \in PasswordData : Call_validatePasswordOrThrow(d)
  \/ \E d \in TokenData : Call_validateToken(d)
  \/ \E d \in TokenData : Call_validateTokenOrThrow(d)
  \/ \E d \in TokenData_p0 : Call_validateToken_p0(d)
  \/ \E d \in TokenData_p0 : Call_validateTokenOrThrow_p0(d)
  \/ \E m \in Minters, t \in TokenTypes, l \in MintLengths \cup LengthInputs :
       generateToken_call(m, t, l)
  \/ \E m \in Minters, u \in Users, t \in TokenTypes, m0 \in MaxAgeInputs,
        l \in MintLengths \cup LengthInputs :
       generateAndSaveToken_call(m, u, t, m0, l)
  \/ \E m \in Minters, u \in Users, t \in TokenTypes, m0 \in MaxAgeInputs_p0,
        l \in MintLengths \cup LengthInputs_p0 :
       generateAndSaveToken_p0_call(m, u, t, m0, l)
  \/ \E m \in Minters : generateToken_randomBytes(m)
  \/ \E m \in Minters, err \in BOOLEAN : generateToken_callback(m, err)
  \/ \E m \in Minters, ok \in BOOLEAN, salt \in Salts :
       generateToken_hash(m, ok, salt)
  \/ \E m \in Minters, ok \in BOOLEAN : generateAndSaveToken_saveAndFetch(m, ok)
  \/ \E ok \in BOOLEAN : Validation_fetch(ok)
  \/ \E ok \in BOOLEAN : Validation_compare(ok)
  \/ Tick

Spec == Init /\ [][Next]_vars

\* The password writes alone, with no expiresAt given, data left as it was
\* passed, and the clock standing still.  The first caller sets either
\* password, the second the second one.
NextPassword ==
  \/ \E c \in Callers, u \in Users : setPassword_call(c, u)
  \/ \E p \in Passwords : setPassword_hardDelete("c1", p)
  \/ setPassword_hardDelete("c2", <<"p", "2">>)
  \/ \E c \in Callers : setPassword_throw(c)
  \/ \E c \in Callers : setPassword_hash(c, arg[c].userId, Null, "s")
  \/ \E c \in Callers : setPassword_save(c)
  \/ \E c \in Callers : Commit(c)
  \/ \E c \in Callers : Rollback(c)

SpecPassword == Init /\ [][NextPassword]_vars

\* The password writes with validatePassword calls for the first user in
\* between, neither their fetch nor their compare failing.
NextPasswordRead ==
  \/ NextPassword
  \/ \E p \in Passwords :
       Call_validatePassword([userId |-> "u1", password |-> p])
  \/ Validation_fetch(TRUE)
  \/ Validation_compare(TRUE)

SpecPasswordRead == Init /\ [][NextPasswordRead]_vars

\* The writes around tokens: the mints of one minter, none of them failing,
\* with committed password changes by one caller in between, the clock
\* standing still.
NextTokenWrite ==
  \/ \E u \in Users : setPassword_call("c1", u)
  \/ setPassword_hardDelete("c1", <<"p", "1">>)
  \/ setPassword_hash("c1", arg["c1"].userId, Null, "s")
  \/ setPassword_save("c1")
  \/ Commit("c1")
  \/ \E t \in TokenTypes :
       generateAndSaveToken_call("m1", "u1", t, Undefined, Num(MaxLength))
  \/ \E t \in TokenTypes :
       generateAndSaveToken_p0_call("m1", "u1", t, Undefined, Undefined)
  \/ generateToken_randomBytes("m1")
  \/ generateToken_callback("m1", FALSE)
  \/ generateToken_hash("m1", TRUE, "s")
  \/ generateAndSaveToken_saveAndFetch("m1", TRUE)

SpecTokenWrite == Init /\ [][NextTokenWrite]_vars

\* The same writes, the hash of a password drawing either salt, with
\* validateToken calls in between, made with the string of the first issue
\* as it was issued, neither their fetch nor their compare failing.
NextToken ==
  \/ NextTokenWrite
  \/ setPassword_hash("c1", arg["c1"].userId, Null, "t")
  \/ \E i \in FirstIssued : Call_validateToken(AsIssued(i, i.bearer))
  \/ \E i \in FirstIssued :
       Call_validateToken_p0([type |-> i.type, token |-> i.bearer])
  \/ Validation_fetch(TRUE)
  \/ Validation_compare(TRUE)

SpecToken == Init /\ [][NextToken]_vars

\* Tokens longer than the key of bcrypt: mints of LongLength bytes (part_000
\* declares length as 32 and mints with that) and the validation of strings
\* made from them.
NextLongToken ==
  \/ \E u \in Users, t \in TokenTypes :
       generateAndSaveToken_call("m1", u, t, Undefined, Num(LongLength))
  \/ \E u \in Users, t \in TokenTypes, l \in LengthInputs_p0 :
       generateAndSaveToken_p0_call("m1", u, t, Undefined, l)
  \/ generateToken_randomBytes("m1")
  \/ generateToken_callback("m1", FALSE)
  \/ \E salt \in Salts : generateToken_hash("m1", TRUE, salt)
  \/ generateAndSaveToken_saveAndFetch("m1", TRUE)
  \/ \E d \in TokenCalls : Call_validateToken(d)
  \/ \E d \in TokenCalls : Call_validateTokenOrThrow(d)
  \/ \E d \in TokenCalls_p0 : Call_validateToken_p0(d)
  \/ \E d \in TokenCalls_p0 : Call_validateTokenOrThrow_p0(d)
  \/ \E ok \in BOOLEAN : Validation_fetch(ok)
  \/ \E ok \in BOOLEAN : Validation_compare(ok)

SpecLongToken == Init /\ [][NextLongToken]_vars

\* Expiry: one user's passwords and session tokens while the clock advances.
NextExpiry ==
  \/ setPassword_call("c1", "u1")
  \/ setPassword_hardDelete("c1", <<"p", "1">>)
  \/ \E e \in ExpiresAtInputs : setPassword_hash("c1", "u1", e, "s")
  \/ setPassword_save("c1")
  \/ Commit("c1")
  \/ \E m0 \in MaxAgeInputs :
       generateAndSaveToken_call("m1", "u1", SessionToken, m0, Undefined)
  \/ \E m0 \in MaxAgeInputs_p0 :
       generateAndSaveToken_p0_call("m1", "u1", SessionToken, m0, Undefined)
  \/ generateToken_randomBytes("m1")
  \/ generateToken_callback("m1", FALSE)
  \/ generateToken_hash("m1", TRUE, "s")
  \/ generateAndSaveToken_saveAndFetch("m1", TRUE)
  \/ Call_validatePasswordOrThrow([userId |-> "u1", password |-> <<"p", "1">>])
  \/ \E i \in FirstIssued : Call_validateTokenOrThrow(AsIssued(i, i.bearer))
  \/ \E i \in FirstIssued :
       Call_validateTokenOrThrow_p0([type |-> i.type, token |-> i.bearer])
  \/ \E ok \in BOOLEAN : Validation_fetch(ok)
  \/ \E ok \in BOOLEAN : Validation_compare(ok)
  \/ Tick

SpecExpiry == Init /\ [][NextExpiry]_vars

\* Minting by two minters side by side, tokens of both types for one user,
\* the clock standing still: what a call leaves behind when it fails, and
\* whether it ends.
NextMint ==
  \/ \E m \in Minters, l \in MintLengths :
       generateToken_call(m, SessionToken, l)
  \/ \E m \in Minters, t \in TokenTypes, l \in MintLengths :
       generateAndSaveToken_call(m, "u1", t, Undefined, l)
  \/ \E m \in Minters, t \in TokenTypes, l \in MintLengths :
       generateAndSaveToken_p0_call(m, "u1", t, Undefined, l)
  \/ \E m \in Minters : generateToken_randomBytes(m)
  \/ \E m \in Minters, err \in BOOLEAN : generateToken_callback(m, err)
  \/ \E m \in Minters, ok \in BOOLEAN : generateToken_hash(m, ok, "s")
  \/ \E m \in Minters, ok \in BOOLEAN : generateAndSaveToken_saveAndFetch(m, ok)

SpecMint == Init /\ [][NextMint]_vars

\* The event loop of a running process runs every continuation that is
\* ready: the executor, the callback of randomBytes, the continuation after
\* hash, the insert.  Once the process has ended none is enabled.
SpecMintFair ==
  /\ SpecMint
  /\ \A m \in Minters :
       /\ WF_vars(generateToken_randomBytes(m))
       /\ WF_vars(\E err \in BOOLEAN : generateToken_callback(m, err))
       /\ WF_vars(\E ok \in BOOLEAN : generateToken_hash(m, ok, "s"))
       /\ WF_vars(\E ok \in BOOLEAN : generateAndSaveToken_saveAndFetch(m, ok))

\* ---------------------------------------------------------------- claims
\* Helpers of the statements below.
Quiet == \A c \in Callers : pc[c] \in Finished
Expired(cred) == cred.expires_at # Null /\ cred.expires_at[1] <= now
RowOf(id) == CHOOSE r \in credentials : r.id = id
IsNumeric(s) == Len(s) > 0 /\ \A k \in 1..Len(s) : IsDigit(s[k])

\* The outcomes of validateToken and of validateTokenOrThrow in the deployed
\* version, for a call with a userId, a type and a bearer string (part_000
\* takes no userId).
TokenOutcomes(d) ==
  IF version = "ts" THEN validateToken(d)
  ELSE validateToken_p0([type |-> d.type, token |-> d.token])
TokenOrThrowOutcomes(d) ==
  IF version = "ts" THEN validateTokenOrThrow(d)
  ELSE validateTokenOrThrow_p0([type |-> d.type, token |-> d.token])
TokenAccepted(o) ==
  o.kind = "return" /\ (IF version = "ts" THEN o.value ELSE o.value # Null)

\* C1: after any sequence of completed setPassword calls, each in its own
\* committed transaction and none overlapping another, the table holds at
\* most one Password row for each user_id.
C1_AtMostOnePasswordRow ==
  (serial /\ Quiet) =>
    \A u \in Users : Cardinality(PasswordRows(u)) <= 1

\* Two committed calls in a row for one user: the second row replaced the first.
C1_Witness ==
  /\ serial /\ Quiet
  /\ nextId = 3
  /\ \E r \in credentials : r.id = 2 /\ PasswordRows(r.user_id) = {r}
  /\ Cardinality(credentials) = 1

\* C2: when two setPassword calls for the same userId ran concurrently, each
\* in its own transaction, and both transactions have committed, the table
\* holds exactly one Password row for that userId.
C2_ExactlyOneAfterConcurrent ==
  \A c, d \in Callers :
    ( /\ c # d
      /\ pc[c] = "committed" /\ pc[d] = "committed"
      /\ overlapped[c] /\ overlapped[d]
      /\ arg[c].userId = arg[d].userId )
    => Cardinality(PasswordRows(arg[c].userId)) = 1

\* C3: setPassword is all-or-nothing with respect to the caller's
\* transaction: when a call that overlapped no other is rolled back (after it
\* failed, or after it returned), the Password rows of its user are exactly
\* those from before the call; when it is committed, exactly the new row is
\* there.
C3_AllOrNothing ==
  [][ \A c \in Callers :
        /\ ( pc[c] \in {"returned", "failed"} /\ pc'[c] = "rolledBack"
             /\ ~ overlapped[c] )
           => {r \in credentials' : r.user_id = arg[c].userId /\ r.type = Password}
                = before[c]
        /\ ( pc[c] = "returned" /\ pc'[c] = "committed" /\ ~ overlapped[c] )
           => Cardinality({r \in credentials' :
                 r.user_id = arg[c].userId /\ r.type = Password}) = 1
    ]_vars

\* C4: validateToken accepts no bearer string whose row has an expires_at
\* that is not later than the current time.
C4_ExpiredTokenRejected ==
  \A d \in TokenData : \A o \in TokenOutcomes(d) :
    TokenAccepted(o) => ~ Expired(o.cred[1])

\* C5: validatePassword rejects when the user's Password row has an
\* expires_at in the past, even with the correct password.
C5_ExpiredPasswordRejected ==
  \A d \in PasswordData : \A o \in validatePassword(d) :
    o.value => ~ Expired(o.cred[1])

\* C6: the bearer string generateAndSaveToken returned splits on "." into
\* exactly two parts, the second is the id of the row that call inserted, and
\* validateToken with that string and the same type (and userId) accepts it
\* before expiry, whatever was minted or set since; a validateToken call
\* made with it that has returned (its fetch and its compare did not fail)
\* has accepted it, whatever was written between its awaits.
C6_RoundTrip ==
  \A i \in issued :
    LET pieces == Split(i.bearer, ".")
    IN /\ Len(pieces) = 2
       /\ pieces[2] = NumberToString(i.id)
       /\ parseInt(pieces[2]) = [nan |-> FALSE, val |-> i.id]
       /\ \E r \in credentials :
            /\ r.id = i.id /\ r.user_id = i.userId /\ r.type = i.type
            /\ compare(i.token, r.secret)
            /\ ~ Expired(r) =>
                 /\ \A o \in TokenOutcomes(AsIssued(i, i.bearer)) :
                      TokenAccepted(o)
                 /\ ( /\ val.pc = "settled"
                      /\ val.method = "validateToken"
                      /\ val.data[1].token = i.bearer
                      /\ val.data[1].type = i.type
                      /\ (version = "ts" => val.data[1].userId = i.userId)
                      /\ val.out[1].kind = "return" )
                    => TokenAccepted(val.out[1])

\* The first mint still validates after a second row was inserted, and a
\* validateToken call made with its string has returned.
C6_Witness ==
  /\ nextId = 3
  /\ val.pc = "settled"
  /\ val.method = "validateToken"
  /\ \E i \in issued :
       /\ i.id = 1
       /\ Len(i.token) >= 1
       /\ val.data[1].token = i.bearer
       /\ val.data[1].type = i.type
       /\ TokenAccepted(val.out[1])
       /\ \E o \in TokenOutcomes(AsIssued(i, i.bearer)) : TokenAccepted(o)

\* C7: a raw token never validates against another mint's row: with t1.id1
\* and t2.id2 issued and t1 # t2, validateToken rejects t2.id1 and t1.id2;
\* validateToken accepts t.i only if t is the raw token whose hash the row
\* with id i stores.
C7_NoCrossValidation ==
  /\ \A i, j \in issued :
       i.token # j.token =>
         \A o \in TokenOutcomes(AsIssued(i, Bearer(j.token, i.id))) :
           ~ TokenAccepted(o)
  /\ \A d \in TokenData : \A o \in TokenOutcomes(d) :
       TokenAccepted(o) =>
         LET pieces == Split(d.token, ".")
         IN \E i \in issued :
              /\ i.id = parseInt(pieces[2]).val
              /\ i.token = pieces[1]
              /\ compare(pieces[1], RowOf(i.id).secret)

\* C8: validateToken rejects, without any storage read, every bearer string
\* that does not split on "." into exactly two parts and every one whose
\* second part is not a number.
C8_MalformedRejectedUnread ==
  \A d \in TokenData :
    LET pieces == Split(d.token, ".")
    IN (Len(pieces) # 2 \/ ~ IsNumeric(pieces[2])) =>
         \A o \in TokenOutcomes(d) : ~ TokenAccepted(o) /\ o.reads = 0

\* C9: a throwing variant throws Unauthorized exactly when its non-throwing
\* counterpart rejects on the same input and state, and never signals a
\* rejection by returning a value.
C9_ThrowIffReject ==
  /\ \A d \in TokenData :
       /\ \A o \in TokenOrThrowOutcomes(d) :
            \E q \in TokenOutcomes(d) :
              /\ q.cred = o.cred
              /\ (o.kind = "throw" /\ o.value = Unauthorized) <=> ~ TokenAccepted(q)
       /\ \A q \in TokenOutcomes(d) :
            \E o \in TokenOrThrowOutcomes(d) :
              /\ q.cred = o.cred
              /\ (o.kind = "throw") <=> ~ TokenAccepted(q)
  /\ \A d \in PasswordData :
       \A o \in validatePasswordOrThrow(d) :
         \E q \in validatePassword(d) :
           /\ q.cred = o.cred
           /\ (o.kind = "throw") <=> ~ q.value

\* C10: generateAndSaveToken stores expires_at = null when the caller passes
\* a falsy maxAgeMinutes (0 or null), now + maxAgeMinutes minutes for a
\* non-zero one, and now + 525600 minutes only when none is supplied.
C10_ExpiresAt ==
  \A i \in issued :
    RowOf(i.id).expires_at =
      IF i.given.t = "undefined" THEN << i.at + DefaultMaxAgeMinutes * Minute >>
      ELSE IF i.given.t = "null" \/ i.given.n = 0 THEN Null
      ELSE << i.at + i.given.n * Minute >>

\* C11: once every setPassword call has committed (none failed, none was
\* rolled back), validatePassword returns true for the password set last for
\* a user and false for every other password, whether the calls ran one after
\* the other or concurrently.
C11_LastPasswordValidates ==
  (Quiet /\ ~ undone) =>
    \A u \in Users :
      lastSet[u] # Null =>
        \A p \in Passwords :
          \A o \in validatePassword([userId |-> u, password |-> p]) :
            o.kind = "return" /\ o.value = (p = lastSet[u])

\* What the caller sees of the rejections of the non-throwing and of the
\* throwing variant, over every bearer string, type and user presented.
RejectionsSeen ==
  { << o.kind, o.value >> :
      o \in { q \in UNION { TokenOutcomes(d) : d \in TokenData } :
                ~ TokenAccepted(q) } }
ThrowsSeen ==
  { o.value :
      o \in { q \in UNION { TokenOrThrowOutcomes(d) : d \in TokenData } :
                q.kind # "return" } }

\* C12: failed validations are indistinguishable to the caller: every
\* rejection by validateToken is the same returned value (false, or null in
\* part_000) and every rejection by validateTokenOrThrow is the same
\* Unauthorized error, whatever the cause (malformed string, no such row, a
\* row of another type or user, the wrong raw token).
C12_FailuresIndistinguishable ==
  /\ RejectionsSeen \subseteq
       { << "return", IF version = "ts" THEN FALSE ELSE Null >> }
  /\ ThrowsSeen \subseteq { Unauthorized }

\* One mint, and rejections of all four causes side by side: a string
\* without a delimiter, an id no row has, the row's id under the other type,
\* and another first part with the row's id.  The four calls end alike, and
\* so do the four calls of the throwing variant.
C12_Witness ==
  \E i \in issued, id \in Ids, t \in TokenTypes :
    LET malformed == AsIssued(i, i.token)
        noRow == AsIssued(i, Bearer(i.token, id))
        otherType == [userId |-> i.userId, type |-> t, token |-> i.bearer]
        wrongToken == AsIssued(i, Bearer(<<"p", "1">>, i.id))
        causes == {malformed, noRow, otherType, wrongToken}
    IN /\ t # i.type
       /\ \A o \in TokenOutcomes(AsIssued(i, i.bearer)) : TokenAccepted(o)
       /\ Len(Split(malformed.token, ".")) = 1
       /\ \A o \in TokenOutcomes(malformed) : o.reads = 0
       /\ \A r \in credentials : r.id # id
       /\ \A o \in TokenOutcomes(noRow) : o.reads = 1 /\ o.cred = Null
       /\ \A o \in TokenOutcomes(otherType) : o.reads = 1 /\ o.cred = Null
       /\ \A o \in TokenOutcomes(wrongToken) : o.cred # Null
       /\ \A d \in causes : \A o \in TokenOutcomes(d) : ~ TokenAccepted(o)
       /\ Cardinality({ << o.kind, o.value >> :
            o \in UNION { TokenOutcomes(d) : d \in causes } }) = 1
       /\ { << o.kind, o.value >> :
            o \in UNION { TokenOrThrowOutcomes(d) : d \in causes } }
            = { << "throw", Unauthorized >> }

\* C13: the secret of every row is the output of hash, never the plaintext:
\* a Password row holds hash(password, saltRounds[Password]) and not the
\* password, a token row holds hash(token, saltRounds[type]) of the raw token
\* in the bearer string returned for it and not that raw token.
C13_SecretIsHash ==
  \A r \in credentials :
    /\ r.type = Password =>
         \E p \in Passwords :
           r.secret \in hash(p, saltRounds[Password]) /\ r.secret # p
    /\ r.type \in TokenTypes =>
         \E i \in issued :
           /\ i.id = r.id
           /\ Split(i.bearer, ".")[1] = i.token
           /\ r.secret \in hash(i.token, saltRounds[r.type])
           /\ r.secret # i.token
    /\ r.type \in {Password} \cup TokenTypes

\* A Password row and a token row side by side, the digest of the password
\* made with another salt than that of the token.
C13_Witness ==
  /\ \E r \in credentials, p \in Passwords :
       /\ r.type = Password
       /\ r.secret = Digest(p, saltRounds[Password], "t")
  /\ \E r \in credentials, i \in issued :
       /\ r.type \in TokenTypes /\ i.id = r.id
       /\ r.secret = Digest(i.token, saltRounds[r.type], "s")

\* C14: while a setPassword call for a user who has one Password row is in
\* flight and its transaction is still open (no other call running), a
\* validatePassword outside that transaction sees exactly the old row: never
\* none, and never the old and the new row together.
C14_NoIntermediateState ==
  \A c \in Callers :
    ( /\ pc[c] \in InFlight
      /\ ~ overlapped[c]
      /\ \A d \in Callers \ {c} : pc[d] \in Finished
      /\ Cardinality(before[c]) = 1 )
    => /\ {r \in Visible(Null) :
             r.user_id = arg[c].userId /\ r.type = Password} = before[c]
       /\ \A p \in Passwords :
            \A o \in validatePassword([userId |-> arg[c].userId,
                                       password |-> p]) :
              o.cred # Null /\ o.cred[1] \in before[c]

\* C15: validateToken accepts a bearer string for a row only when its second
\* part is the decimal form of the row's id: the id followed by other
\* characters is rejected, even with the row's own raw token in front.
C15_SecondPartIsId ==
  \A d \in TokenData : \A o \in TokenOutcomes(d) :
    TokenAccepted(o) =>
      Split(d.token, ".")[2] = NumberToString(o.cred[1].id)

\* C16: token validation is bound to the row's type and owner: an accepted
\* call matched a row of the type it was asked for (so a SessionToken string
\* is rejected as PrivilegedToken and the reverse, and an id naming a
\* Password row is rejected); with a userId, the row belongs to that user (a
\* token of user A is rejected for user B); without one, the record returned
\* carries the user_id the token was minted for.
C16_BoundToTypeAndOwner ==
  /\ \A d \in TokenData : \A o \in TokenOutcomes(d) :
       TokenAccepted(o) =>
         /\ o.cred[1].type = d.type
         /\ o.cred[1].type # Password
         /\ version = "ts" => o.cred[1].user_id = d.userId
         /\ version = "p0" =>
              \E i \in issued :
                /\ i.id = o.cred[1].id /\ i.type = d.type
                /\ o.value[1].id = i.id /\ o.value[1].user_id = i.userId
  /\ \A i \in issued :
       /\ \A t \in TokenTypes \ {i.type} :
            \A o \in TokenOutcomes([userId |-> i.userId, type |-> t,
                                    token |-> i.bearer]) : ~ TokenAccepted(o)
       /\ version = "ts" =>
            \A u \in Users \ {i.userId} :
              \A o \in TokenOutcomes([userId |-> u, type |-> i.type,
                                      token |-> i.bearer]) : ~ TokenAccepted(o)
  /\ \A r \in credentials :
       r.type = Password =>
         \A p \in Passwords, t \in TokenTypes :
           \A o \in TokenOutcomes([userId |-> r.user_id, type |-> t,
                                   token |-> Bearer(p, r.id)]) :
             ~ TokenAccepted(o)

\* A token row and a Password row of one user: the token validates under its
\* own type and not under the other; the password with the Password row's id
\* is rejected although it compares equal; the other user is rejected
\* (Credentials.ts), or the record names the minting user (part_000).
C16_Witness ==
  \E i \in issued, r \in credentials :
    /\ r.type = Password /\ r.user_id = i.userId
    /\ compare(<<"p", "1">>, r.secret)
    /\ \A o \in TokenOutcomes(AsIssued(i, i.bearer)) :
         /\ TokenAccepted(o)
         /\ version = "p0" => o.value[1].user_id = i.userId
    /\ \E t \in TokenTypes \ {i.type} :
         \A o \in TokenOutcomes([userId |-> i.userId, type |-> t,
                                 token |-> i.bearer]) : ~ TokenAccepted(o)
    /\ \A o \in TokenOutcomes(AsIssued(i, Bearer(<<"p", "1">>, r.id))) :
         ~ TokenAccepted(o)
    /\ version = "ts" =>
         \E u \in Users \ {i.userId} :
           \A o \in TokenOutcomes([userId |-> u, type |-> i.type,
                                   token |-> i.bearer]) : ~ TokenAccepted(o)

\* C17: every step of a setPassword call for user U and of its transaction
\* (call, delete, insert, commit) leaves each row that is not a Password row
\* of U as it was and marks no such row as deleted; so whatever passwords
\* have been set since, the row of every issued token is there and the token
\* validates.  (The validation methods write nothing: a step of a
\* validation call changes the record of that call and no row.)
C17_Frame ==
  /\ [][ val' # val =>
           UNCHANGED << credentials, nextId, txDeleted, issued, lastSet >> ]_vars
  /\ [][ \A c \in Callers :
           pc'[c] # pc[c] =>
             /\ {r \in credentials :
                   ~ (r.type = Password /\ r.user_id = arg'[c].userId)}
                  = {r \in credentials' :
                       ~ (r.type = Password /\ r.user_id = arg'[c].userId)}
             /\ \A r \in credentials' :
                  r.id \in txDeleted'[c] =>
                    r.type = Password /\ r.user_id = arg'[c].userId
       ]_vars
  /\ [] ( \A i \in issued :
            /\ \E r \in Visible(Null) :
                 r.id = i.id /\ r.type = i.type /\ r.user_id = i.userId
            /\ \A o \in TokenOutcomes(AsIssued(i, i.bearer)) : TokenAccepted(o) )

\* A token minted for a user, then that user's password set and committed:
\* the token row is there and the token validates.
C17_Witness ==
  /\ pc["c1"] = "committed"
  /\ \E i \in issued, r \in credentials :
       /\ i.id = 1 /\ i.userId = arg["c1"].userId
       /\ r.id = 2 /\ r.type = Password /\ r.user_id = i.userId
       /\ RowOf(1).type = i.type
       /\ \A o \in TokenOutcomes(AsIssued(i, i.bearer)) : TokenAccepted(o)

\* A length that is no length of a token: not a size randomBytes takes, or
\* less than one byte.  A cost factor outside the range of bcrypt, 4..31.
InvalidLength(n) == ~ ValidSize(n) \/ n < 1
InvalidCost(rounds) == rounds < 4 \/ rounds > 31

\* C18: generateAndSaveToken writes nothing when minting fails: no step of a
\* call changes the table or returns a string except its insert, which adds
\* exactly one row, with the hash of the token made, for the user and type
\* asked for; the insert is issued only with the hash of the token made; a
\* call whose length or whose type's cost factor is invalid fails, its insert
\* never issued; and a call that returned has its row and its string.
C18_NoPartialMint ==
  /\ [][ \A m \in Minters :
           gen'[m] # gen[m] =>
             \/ credentials' = credentials /\ issued' = issued
             \/ /\ gen[m].pc = "saveAndFetch" /\ gen'[m].pc = "resolved"
                /\ \E r \in credentials' \ credentials :
                     /\ credentials' = credentials \cup {r}
                     /\ r.user_id = gen[m].userId /\ r.type = gen[m].type
                     /\ r.secret \in
                          hash(gen[m].token, saltRounds[gen[m].type])
                     /\ r.expires_at = gen[m].expires_at
                     /\ \E i \in issued' \ issued :
                          /\ issued' = issued \cup {i}
                          /\ i.id = r.id /\ i.token = gen[m].token
       ]_vars
  /\ [] ( \A m \in Minters :
            /\ gen[m].pc = "saveAndFetch" =>
                 /\ gen[m].save
                 /\ gen[m].secret \in
                      hash(gen[m].token, saltRounds[gen[m].type])
            /\ ( /\ gen[m].save
                 /\ \/ InvalidLength(gen[m].length)
                    \/ InvalidCost(saltRounds[gen[m].type]) )
                 => gen[m].pc \notin {"saveAndFetch", "resolved"}
            /\ (gen[m].pc = "resolved" /\ gen[m].save) =>
                 \E r \in credentials, i \in issued :
                   /\ i.id = r.id /\ i.token = gen[m].token
                   /\ r.user_id = gen[m].userId /\ r.type = gen[m].type
                   /\ r.secret \in
                        hash(gen[m].token, saltRounds[gen[m].type]) )

\* C19: every generateToken call eventually completes, resolved (on its own
\* or back in generateAndSaveToken) or rejected, also when randomBytes
\* reports an error to its callback.
C19_GenerateTokenCompletes ==
  \A m \in Minters :
    (gen[m].pc \in {"randomBytes", "callback", "hash", "uncaught"})
      ~> (gen[m].pc \in {"saveAndFetch", "resolved", "rejected"})

====
